---- MODULE Spec2Model ----
(***************************************************************************)
(* A model of the WhatsApp integration layer of meta-webhook-test:         *)
(* the Express routes of src/app.js (webhook verification, webhook         *)
(* delivery, single send, bulk send) and the shared helper module          *)
(* src/unnamed/part_000 (parseWebhookPayload).                             *)
(*                                                                         *)
(* JavaScript's undefined / missing property is modelled as the empty      *)
(* sequence None, a present value x as the one-element sequence Some(x).   *)
(* Texts are sequences of one-character strings, so that the regular       *)
(* expressions of the RSVP classifier are evaluated character by           *)
(* character.  The datastore and the provider are collaborators whose      *)
(* outcome (ok, error result, rejection) is chosen nondeterministically.   *)
(***************************************************************************)
EXTENDS Integers, Sequences, FiniteSets, TLC

VARIABLES
    env,              \* process.env as read by getWhatsAppConfig
    req,              \* the request being (or last) handled
    res,              \* the response sent for it
    now,              \* the clock read by new Date()
    invitees,         \* datastore table invitees: id -> row
    message_history,  \* datastore table message_history: sequence of rows
    dbCalls,          \* datastore calls issued by the handler of req, in order
    io,               \* what the collaborators answered to the handler of req
    pc,               \* bulk send: position of the handler
    timers,           \* bulk send: inter-message timers that have fired
    idx,              \* bulk send: 1-based index of the loop's current message
    results,          \* bulk send: the results array
    errors,           \* bulk send: the errors array
    inflight,         \* bulk send: indices whose provider call is outstanding
    sent,             \* provider: sequence of the calls it has received
    text,             \* classifier: the reply text
    rsvp,             \* classifier: the outcome computed for text
    payload,          \* normalizer: the raw webhook body
    parsed,           \* normalizer: what parseWebhookPayload returned
    handled           \* normalizer: what the inline code of the handler made of it

httpVars == <<req, res>>
dbVars == <<now, invitees, message_history, dbCalls, io>>
bulkVars == <<pc, idx, timers, results, errors, inflight, sent>>
classVars == <<text, rsvp>>
normVars == <<payload, parsed, handled>>
vars == <<env, httpVars, dbVars, bulkVars, classVars, normVars>>

(***************************************************************************)
(* Bounds of the model.                                                    *)
(***************************************************************************)
\* fragments concatenated into one reply text
MaxFrags == 3
\* entries of value.statuses, and of value.messages, in one webhook payload
MaxBatch == 2
\* requests handled in one behaviour; each is handled at its own clock reading
MaxClock == 2
\* messages in one bulk-send request
MaxMsgs == 2

(***************************************************************************)
(* undefined and optional chaining                                         *)
(***************************************************************************)
None == <<>>
Some(x) == <<x>>
IsSome(o) == Len(o) > 0
Get(o) == o[1]

\* a[0] of optional chaining: a?.[0] on a missing or empty array is undefined
First(arr) == IF IsSome(arr) /\ Len(Get(arr)) > 0 THEN Some(Get(arr)[1]) ELSE None

(***************************************************************************)
(* RSVP classification: src/app.js lines 228-234                           *)
(***************************************************************************)
UpperCase == <<"A", "B", "C", "D", "E", "F", "G", "H", "I", "J", "K", "L", "M",
               "N", "O", "P", "Q", "R", "S", "T", "U", "V", "W", "X", "Y", "Z">>
LowerCase == <<"a", "b", "c", "d", "e", "f", "g", "h", "i", "j", "k", "l", "m",
               "n", "o", "p", "q", "r", "s", "t", "u", "v", "w", "x", "y", "z">>
Digits == <<"0", "1", "2", "3", "4", "5", "6", "7", "8", "9">>

Range(f) == {f[i] : i \in DOMAIN f}

\* the class \w of a JavaScript regular expression: [A-Za-z0-9_]
WordChars == Range(UpperCase) \cup Range(LowerCase) \cup Range(Digits) \cup {"_"}
IsWordChar(c) == c \in WordChars

\* String.prototype.toLowerCase, one character
toLowerChar(c) ==
    IF \E i \in DOMAIN UpperCase : UpperCase[i] = c
    THEN LowerCase[CHOOSE i \in DOMAIN UpperCase : UpperCase[i] = c]
    ELSE c

toLowerCase(s) == [i \in DOMAIN s |-> toLowerChar(s[i])]

\* whether position i of s (1-based) holds a word character; outside s: no
WordAt(s, i) == i \in DOMAIN s /\ IsWordChar(s[i])

\* the assertion \b between s[p] and s[p+1], p \in 0..Len(s)
WordBoundary(s, p) == WordAt(s, p) # WordAt(s, p + 1)

\* the group (^|\b) at offset p
LeftAnchor(s, p) == p = 0 \/ WordBoundary(s, p)

\* the group (\b|$) at offset p
RightAnchor(s, p) == WordBoundary(s, p) \/ p = Len(s)

\* /(^|\b)(k1|k2|...)(\b|$)/.test(s): some offset p and some alternative k
RegexTest(keywords, s) ==
    \E p \in 0..Len(s) : \E k \in keywords :
        /\ LeftAnchor(s, p)
        /\ p + Len(k) <= Len(s)
        /\ SubSeq(s, p + 1, p + Len(k)) = k
        /\ RightAnchor(s, p + Len(k))

ConfirmedKeywords ==
    { <<"y", "e", "s">>,
      <<"a", "t", "t", "e", "n", "d", "i", "n", "g">>,
      <<"w", "i", "l", "l", " ", "a", "t", "t", "e", "n", "d">> }
DeclinedKeywords ==
    { <<"n", "o">>,
      <<"n", "o", "t", " ", "a", "t", "t", "e", "n", "d", "i", "n", "g">>,
      <<"c", "a", "n", "n", "o", "t", " ", "a", "t", "t", "e", "n", "d">> }
MaybeKeywords ==
    { <<"m", "a", "y", "b", "e">>,
      <<"p", "o", "s", "s", "i", "b", "l", "y">> }

\* the chain with its first two tests exchanged
ClassifyDeclinedFirst(messageText) ==
    LET t == toLowerCase(messageText) IN
    IF RegexTest(DeclinedKeywords, t) THEN "declined"
    ELSE IF RegexTest(ConfirmedKeywords, t) THEN "confirmed"
    ELSE IF RegexTest(MaybeKeywords, t) THEN "maybe"
    ELSE "pending"

\* the if / else-if chain that sets rsvpStatus
Classify(messageText) ==
    LET t == toLowerCase(messageText) IN
    IF RegexTest(ConfirmedKeywords, t) THEN "confirmed"
    ELSE IF RegexTest(DeclinedKeywords, t) THEN "declined"
    ELSE IF RegexTest(MaybeKeywords, t) THEN "maybe"
    ELSE "pending"

(***************************************************************************)
(* Reply texts: every concatenation of at most MaxFrags fragments.         *)
(***************************************************************************)
Fragments ==
    { <<"Y", "e", "s">>, <<"n", "o">>, <<"t", "e", "r", "d", "a", "y">>,
      <<" ">>, <<"_">>, <<"n", "o", "t", " ">>,
      <<"a", "t", "t", "e", "n", "d">>, <<"i", "n", "g">>,
      <<"w", "i", "l", "l", " ">>, <<"c", "a", "n">>,
      <<"M", "A", "Y", "B", "E">>, <<"p", "o", "s", "s", "i", "b", "l", "y">> }

RECURSIVE TextsOf(_)
TextsOf(n) ==
    IF n = 0 THEN {<<>>}
    ELSE LET shorter == TextsOf(n - 1) IN
         shorter \cup {f \o s : f \in Fragments, s \in shorter}

Texts == TextsOf(MaxFrags)

(***************************************************************************)
(* Configuration: src/app.js lines 25-30                                   *)
(***************************************************************************)
getWhatsAppConfig ==
    [ phoneNumberId |-> env.WHATSAPP_PHONE_NUMBER_ID,
      accessToken |-> env.WHATSAPP_ACCESS_TOKEN,
      webhookVerifyToken |-> env.WHATSAPP_WEBHOOK_VERIFY_TOKEN ]

(***************************************************************************)
(* Values the variables of the other routes hold while one route is        *)
(* exercised alone.                                                        *)
(***************************************************************************)
IdleEnv ==
    env = [ WHATSAPP_PHONE_NUMBER_ID |-> None,
            WHATSAPP_ACCESS_TOKEN |-> None,
            WHATSAPP_WEBHOOK_VERIFY_TOKEN |-> None ]
IdleHttp == req = None /\ res = None
IdleDb ==
    /\ now = 0
    /\ invitees = <<>>
    /\ message_history = <<>>
    /\ dbCalls = <<>>
    /\ io = <<>>
IdleBulk ==
    /\ pc = "idle"
    /\ idx = 0
    /\ timers = 0
    /\ results = <<>>
    /\ errors = <<>>
    /\ inflight = {}
    /\ sent = <<>>
IdleClass == text = <<>> /\ rsvp = "none"
IdleNorm == payload = None /\ parsed = None /\ handled = None

(***************************************************************************)
(* The classifier alone, over every reply text                             *)
(***************************************************************************)
InitClassify ==
    /\ text \in Texts
    /\ rsvp = "none"
    /\ IdleEnv /\ IdleHttp /\ IdleDb /\ IdleBulk /\ IdleNorm

ClassifyReply ==
    /\ rsvp = "none"
    /\ rsvp' = Classify(text)
    /\ UNCHANGED <<text, env, httpVars, dbVars, bulkVars, normVars>>

NextClassify == ClassifyReply

SpecClassify == InitClassify /\ [][NextClassify]_vars

\* the keyword groups and the delimited occurrence of a keyword, as stated
C5_Confirm ==
    { <<"y", "e", "s">>,
      <<"a", "t", "t", "e", "n", "d", "i", "n", "g">>,
      <<"w", "i", "l", "l", " ", "a", "t", "t", "e", "n", "d">> }
C5_Decline ==
    { <<"n", "o">>,
      <<"n", "o", "t", " ", "a", "t", "t", "e", "n", "d", "i", "n", "g">>,
      <<"c", "a", "n", "n", "o", "t", " ", "a", "t", "t", "e", "n", "d">> }
C5_Maybe ==
    { <<"m", "a", "y", "b", "e">>,
      <<"p", "o", "s", "s", "i", "b", "l", "y">> }
C5_Delimited(s, k) ==
    \E i \in 1..Len(s) :
        /\ i + Len(k) - 1 <= Len(s)
        /\ SubSeq(s, i, i + Len(k) - 1) = k
        /\ (i = 1 \/ ~IsWordChar(s[i - 1]))
        /\ (i + Len(k) - 1 = Len(s) \/ ~IsWordChar(s[i + Len(k)]))
C5_Has(group, s) == \E k \in group : C5_Delimited(s, k)

\* C5: the outcome is one of the four RSVP outcomes and is decided by the
\* lower-cased text alone: confirmed when a confirm keyword stands in it
\* delimited by non-word characters or the ends of the text, else declined
\* when a decline keyword does, else maybe when a maybe keyword does, else
\* pending; so a text with a confirm and a decline keyword is confirmed,
\* "yesterday" is pending and the empty text is pending.
C5_Classification ==
    rsvp # "none" =>
        LET t == toLowerCase(text)
            c == C5_Has(C5_Confirm, t)
            d == C5_Has(C5_Decline, t)
            m == C5_Has(C5_Maybe, t)
        IN  /\ rsvp \in {"confirmed", "declined", "maybe", "pending"}
            /\ rsvp = "confirmed" <=> c
            /\ rsvp = "declined" <=> (~c /\ d)
            /\ rsvp = "maybe" <=> (~c /\ ~d /\ m)
            /\ rsvp = "pending" <=> (~c /\ ~d /\ ~m)
            /\ (c /\ d) => rsvp = "confirmed"
            /\ text = <<"Y", "e", "s", "t", "e", "r", "d", "a", "y">> => rsvp = "pending"
            /\ text = <<>> => rsvp = "pending"

\* a reply with a confirm and a decline keyword has been classified
C5_Witness ==
    /\ text = <<"Y", "e", "s", " ", "n", "o">>
    /\ rsvp = "confirmed"

(***************************************************************************)
(* Webhook verification: src/app.js lines 174-184                          *)
(***************************************************************************)
VerifyRoute == "GET /api/webhook-response"

Modes == {None, Some("subscribe"), Some("unsubscribe")}
Tokens == {None, Some(""), Some("s3cret"), Some("wrong")}
Challenges == {None, Some("1158201444"), Some("42")}
Secrets == {None, Some(""), Some("s3cret")}

\* the response of app.get("/api/webhook-response")
VerifyResponse(mode, token, challenge) ==
    LET config == getWhatsAppConfig IN
    IF mode = Some("subscribe") /\ token = config.webhookVerifyToken
    THEN [status |-> 200, body |-> challenge]
    ELSE [status |-> 403, body |-> Some("Forbidden")]

InitVerify ==
    /\ env \in [ WHATSAPP_PHONE_NUMBER_ID : {Some("1066")},
                 WHATSAPP_ACCESS_TOKEN : {Some("EAAG")},
                 WHATSAPP_WEBHOOK_VERIFY_TOKEN : Secrets ]
    /\ IdleHttp /\ IdleDb /\ IdleBulk /\ IdleClass /\ IdleNorm

WebhookVerify ==
    \E mode \in Modes, token \in Tokens, challenge \in Challenges :
        /\ req' = Some([ route |-> VerifyRoute,
                         query |-> [mode |-> mode, verify_token |-> token,
                                    challenge |-> challenge] ])
        /\ res' = VerifyResponse(mode, token, challenge)
        /\ UNCHANGED <<env, dbVars, bulkVars, classVars, normVars>>

NextVerify == WebhookVerify

SpecVerify == InitVerify /\ [][NextVerify]_vars

\* C3: a verification request is answered 200 with the challenge as body
\* exactly when hub.mode is "subscribe", a secret is configured and
\* hub.verify_token equals it; every other request is answered 403.
C3_VerifyIffTokenMatches ==
    (IsSome(req) /\ Get(req).route = VerifyRoute) =>
        LET q == Get(req).query
            secret == env.WHATSAPP_WEBHOOK_VERIFY_TOKEN
            accepted == /\ q.mode = Some("subscribe")
                        /\ IsSome(secret)
                        /\ IsSome(q.verify_token)
                        /\ q.verify_token = secret
        IN  IF accepted
            THEN res.status = 200 /\ res.body = q.challenge
            ELSE res.status = 403

(***************************************************************************)
(* Webhook payloads.  A body is None (no body) or Some of                  *)
(*   [entry: optional array of [changes: optional array of                 *)
(*      [value: optional [messages, statuses, contacts: optional arrays]]]]*)
(***************************************************************************)
RECURSIVE SeqsUpTo(_, _)
SeqsUpTo(S, n) ==
    IF n = 0 THEN {<<>>}
    ELSE LET shorter == SeqsUpTo(S, n - 1) IN
         shorter \cup {<<x>> \o s : x \in S, s \in shorter}

\* an optional array over S of at most n entries: missing, empty, or filled
OptArrays(S, n) == {None} \cup {Some(a) : a \in SeqsUpTo(S, n)}

TextMessage(id, from, body) ==
    [id |-> id, from |-> from, timestamp |-> "1700000000", type |-> "text",
     text |-> Some([body |-> Some(body)])]
ImageMessage(id, from) ==
    [id |-> id, from |-> from, timestamp |-> "1700000000", type |-> "image",
     text |-> None]
Status(id, status) == [id |-> id, status |-> status, timestamp |-> "1700000001"]
Contact(waId, name) == [wa_id |-> Some(waId), profile |-> Some([name |-> Some(name)])]

Body(value) == Some([entry |-> Some(<<[changes |-> Some(<<[value |-> value]>>)]>>)])

\* the bodies that end before a value is reached
BrokenBodies ==
    { Some([entry |-> None]),
      Some([entry |-> Some(<<>>)]),
      Some([entry |-> Some(<<[changes |-> None]>>)]),
      Some([entry |-> Some(<<[changes |-> Some(<<>>)]>>)]),
      Body(None) }

Bodies(messages, statuses, contacts) ==
    {None} \cup BrokenBodies \cup
    { Body(Some([messages |-> m, statuses |-> s, contacts |-> c])) :
        m \in OptArrays(messages, MaxBatch),
        s \in OptArrays(statuses, MaxBatch),
        c \in OptArrays(contacts, 1) }

\* body.entry?.[0]?.changes?.[0]?.value
ValueOf(body) ==
    LET entry == First(Get(body).entry) IN
    IF ~IsSome(entry) THEN None
    ELSE LET changes == First(Get(entry).changes) IN
         IF ~IsSome(changes) THEN None ELSE Get(changes).value

\* message.text?.body || ""
TextOf(message) ==
    IF IsSome(message.text) /\ IsSome(Get(message.text).body)
    THEN Get(Get(message.text).body)
    ELSE <<>>

(***************************************************************************)
(* parseWebhookPayload: src/unnamed/part_000 lines 138-165.                *)
(* The result is None for null and Some(record) for a parsed message.      *)
(***************************************************************************)
\* contact?.profile?.name || ""
ContactNameOf(contact) ==
    IF IsSome(contact) /\ IsSome(Get(contact).profile)
       /\ IsSome(Get(Get(contact).profile).name)
    THEN Get(Get(Get(contact).profile).name)
    ELSE ""

\* contact?.wa_id || message.from
WaIdOf(contact, message) ==
    IF IsSome(contact) /\ IsSome(Get(contact).wa_id)
    THEN Get(Get(contact).wa_id)
    ELSE message.from

parseWebhookPayload(body) ==
    IF ~IsSome(body) THEN None                    \* body.entry throws: caught
    ELSE LET value == ValueOf(body) IN
         IF ~IsSome(value) \/ ~IsSome(Get(value).messages) THEN None
         ELSE LET message == First(Get(value).messages)
                  contact == First(Get(value).contacts)
              IN  IF ~IsSome(message) THEN None   \* message.id throws: caught
                  ELSE Some([ messageId |-> Get(message).id,
                              from |-> Get(message).from,
                              timestamp |-> Get(message).timestamp,
                              type |-> Get(message).type,
                              text |-> TextOf(Get(message)),
                              contactName |-> ContactNameOf(contact),
                              waId |-> WaIdOf(contact, Get(message)) ])

(***************************************************************************)
(* The same steps inlined in the handler: src/app.js lines 192-218.        *)
(* kind is "empty" (400), "statuses" (logged, 200), "message", or "throw"  *)
(* (a TypeError, which the handler's catch turns into 500).                *)
(***************************************************************************)
\* the object logged for one status
LoggedStatus(s) == [id |-> s.id, status |-> s.status, timestamp |-> s.timestamp]

HandlerNormalize(body) ==
    IF ~IsSome(body) THEN [kind |-> "empty"]
    ELSE LET value == ValueOf(body) IN
         IF (~IsSome(value) \/ ~IsSome(Get(value).messages))
            /\ IsSome(value) /\ IsSome(Get(value).statuses)
            /\ Len(Get(Get(value).statuses)) > 0
         THEN [ kind |-> "statuses",
                statuses |-> [i \in DOMAIN Get(Get(value).statuses) |->
                                 LoggedStatus(Get(Get(value).statuses)[i])] ]
         ELSE IF ~IsSome(value) \/ ~IsSome(Get(value).messages)
                 \/ ~IsSome(First(Get(value).messages))
              THEN [kind |-> "throw"]
              ELSE LET message == Get(First(Get(value).messages)) IN
                   [ kind |-> "message",
                     messageText |-> TextOf(message),
                     from |-> message.from,
                     messageId |-> message.id ]

(***************************************************************************)
(* The normalizer alone, over every payload                                *)
(***************************************************************************)
NormMessages ==
    { TextMessage("wamid.1", "15550001", <<"y", "e", "s">>),
      ImageMessage("wamid.2", "15550001") }
NormStatuses == { Status("wamid.8", "delivered"), Status("wamid.9", "failed") }
NormContacts == { Contact("15550001", "Dana") }

InitNormalize ==
    /\ payload \in Bodies(NormMessages, NormStatuses, NormContacts)
    /\ parsed = None
    /\ handled = None
    /\ IdleEnv /\ IdleHttp /\ IdleDb /\ IdleBulk /\ IdleClass

ParsePayload ==
    /\ parsed = None
    /\ parsed' = Some(parseWebhookPayload(payload))
    /\ UNCHANGED <<payload, handled, env, httpVars, dbVars, bulkVars, classVars>>

HandlePayload ==
    /\ handled = None
    /\ handled' = Some(HandlerNormalize(payload))
    /\ UNCHANGED <<payload, parsed, env, httpVars, dbVars, bulkVars, classVars>>

NextNormalize == ParsePayload \/ HandlePayload

SpecNormalize == InitNormalize /\ [][NextNormalize]_vars

\* the outcome stated for a body, and the outcome each copy computed
C6_HasMessages(body) ==
    /\ IsSome(body) /\ IsSome(ValueOf(body))
    /\ IsSome(First(Get(ValueOf(body)).messages))
C6_HasStatuses(body) ==
    /\ IsSome(body) /\ IsSome(ValueOf(body))
    /\ IsSome(First(Get(ValueOf(body)).statuses))
C6_Expected(body) ==
    IF C6_HasMessages(body) THEN "message"
    ELSE IF C6_HasStatuses(body) THEN "statuses"
    ELSE "unrecognized"

\* what parseWebhookPayload returned: a message, or null
C6_ParsedKind(r) == IF IsSome(r) THEN "message" ELSE "unrecognized"

\* what the handler made of the body; the 400 answer to no body raises nothing
C6_HandledKind(r) == IF r.kind = "empty" THEN "unrecognized" ELSE r.kind

\* C6: normalization never raises and yields exactly one of: a single
\* message built from messages[0] (text.body or the empty text) when
\* value.messages is non-empty; one status update per entry of
\* value.statuses when there is no message and statuses is non-empty;
\* unrecognized otherwise.
C6_NormalizeTotalExclusive ==
    LET want == C6_Expected(payload) IN
    /\ IsSome(parsed) =>
          /\ C6_ParsedKind(Get(parsed)) = want
          /\ want = "message" =>
                Get(Get(parsed)).text = TextOf(Get(Get(ValueOf(payload)).messages)[1])
    /\ IsSome(handled) =>
          /\ C6_HandledKind(Get(handled)) = want
          /\ want = "message" =>
                Get(handled).messageText
                    = TextOf(Get(Get(ValueOf(payload)).messages)[1])
          /\ want = "statuses" =>
                Len(Get(handled).statuses) = Len(Get(Get(ValueOf(payload)).statuses))

(***************************************************************************)
(* The datastore (Supabase) as the handlers use it.  A call answers "ok",  *)
(* "error" (an error result, no row written) or "throw" (the promise       *)
(* rejects, no row written).                                               *)
(***************************************************************************)
Outcomes == {"ok", "error", "throw"}

NoIo == [lookup |-> "none", update |-> "none", insert |-> "none", send |-> "none"]

InitInvitees ==
    1 :> [ id |-> 1, phone_number |-> "15550001", rsvp_status |-> "pending",
           additional_info |-> <<>>, updated_at |-> 0 ]
    @@
    2 :> [ id |-> 2, phone_number |-> "15550002", rsvp_status |-> "confirmed",
           additional_info |-> << [at |-> 0, text |-> <<"y", "e", "s">>] >>,
           updated_at |-> 0 ]

\* .from("invitees").select("*").eq("phone_number", from).limit(1): the data
\* of an ok answer, one for each row the datastore may put first
Lookup(from) ==
    LET matches == {i \in DOMAIN invitees : invitees[i].phone_number = from} IN
    IF matches = {} THEN {<<>>} ELSE {<<invitees[i]>> : i \in matches}

\* additional_info of the update: the old text, a line break, the dated reply
AppendNoteDropOld(old, at, messageText) == <<[at |-> at, text |-> messageText]>>
AppendNote(old, at, messageText) ==
    IF old # <<>>
    THEN old \o <<[at |-> at, text |-> messageText]>>
    ELSE <<[at |-> at, text |-> messageText]>>

\* if (rsvpStatus !== "pending")
ShouldUpdateAlways(rsvpStatus) == TRUE
ShouldUpdate(rsvpStatus) == rsvpStatus # "pending"

\* the row of the handler's message_history insert
ReplyRow(invitee, messageText, messageId) ==
    [ invitee_id |-> invitee.id,
      message_body |-> messageText,
      sent_at |-> now,
      status |-> "delivered",
      response_received |-> TRUE,
      response_text |-> messageText,
      whatsapp_message_id |-> messageId ]

(***************************************************************************)
(* Webhook delivery: src/app.js lines 186-269                              *)
(***************************************************************************)
WebhookRoute == "POST /api/webhook-response"

Ok200 == [status |-> 200, body |-> "OK"]
Error500 == [status |-> 500, body |-> "Error processing webhook"]
BadRequest400 == [status |-> 400, body |-> "Bad Request: Empty body"]

\* the handler from the lookup on, for a normalized message n; rows is the
\* data of the lookup, lo / uo / ino the answers of the three calls
PersistReply(n, rows, lo, uo, ino) ==
    IF lo = "throw"
    THEN [ res |-> Error500, invitees |-> invitees, history |-> message_history,
           calls |-> <<"select">>, io |-> [NoIo EXCEPT !.lookup = lo] ]
    ELSE IF lo = "error" \/ rows = <<>>
    THEN [ res |-> Ok200, invitees |-> invitees, history |-> message_history,
           calls |-> <<"select">>, io |-> [NoIo EXCEPT !.lookup = lo] ]
    ELSE
    LET invitee == rows[1]
        rsvpStatus == Classify(n.messageText)
        update == ShouldUpdate(rsvpStatus)
        updated ==
            IF update /\ uo = "ok"
            THEN [invitees EXCEPT ![invitee.id] =
                    [@ EXCEPT !.rsvp_status = rsvpStatus,
                              !.additional_info =
                                  AppendNote(invitee.additional_info, now, n.messageText),
                              !.updated_at = now]]
            ELSE invitees
        io1 == [NoIo EXCEPT !.lookup = lo, !.update = IF update THEN uo ELSE "none"]
    IN  IF update /\ uo = "throw"
        THEN [ res |-> Error500, invitees |-> updated, history |-> message_history,
               calls |-> <<"select", "update">>, io |-> io1 ]
        ELSE [ res |-> IF ino = "throw" THEN Error500 ELSE Ok200,
               invitees |-> updated,
               history |-> IF ino = "ok"
                           THEN Append(message_history,
                                       ReplyRow(invitee, n.messageText, n.messageId))
                           ELSE message_history,
               calls |-> (IF update THEN <<"select", "update">> ELSE <<"select">>)
                         \o <<"insert">>,
               io |-> [io1 EXCEPT !.insert = ino] ]

\* the answers of the update and of the insert: "none" when the handler
\* does not get to make the call
UpdateAnswers(n, rows, lo) ==
    IF lo = "ok" /\ rows # <<>> /\ ShouldUpdate(Classify(n.messageText))
    THEN Outcomes ELSE {"none"}
InsertAnswers(n, rows, lo, uo) ==
    IF lo = "ok" /\ rows # <<>> /\ uo # "throw" THEN Outcomes ELSE {"none"}

WebhookMessages ==
    { TextMessage("wamid.1", "15550001", <<"Y", "e", "s">>),
      TextMessage("wamid.2", "15550001", <<"s", "e", "e", " ", "y", "o", "u">>),
      TextMessage("wamid.3", "15550002", <<"n", "o", " ", "t", "h", "a", "n", "k", "s">>),
      TextMessage("wamid.4", "15550009", <<"Y", "e", "s">>),
      ImageMessage("wamid.5", "15550002") }
WebhookStatuses == { Status("wamid.8", "delivered") }

WebhookBodies ==
    {None} \cup BrokenBodies \cup
    { Body(Some([messages |-> m, statuses |-> s, contacts |-> None])) :
        m \in OptArrays(WebhookMessages, 1)
              \cup { Some(<<TextMessage("wamid.2", "15550001",
                                        <<"s", "e", "e", " ", "y", "o", "u">>),
                            TextMessage("wamid.3", "15550002",
                                        <<"n", "o", " ", "t", "h", "a", "n", "k", "s">>)>>) },
        s \in OptArrays(WebhookStatuses, 1) }

InitWebhook ==
    /\ invitees = InitInvitees
    /\ message_history = <<>>
    /\ now = 0
    /\ dbCalls = <<>>
    /\ io = NoIo
    /\ IdleEnv /\ IdleHttp /\ IdleBulk /\ IdleClass /\ IdleNorm

\* the handler answers without touching the datastore
WebhookNoDatastore(answer) ==
    /\ res' = answer
    /\ dbCalls' = <<>>
    /\ io' = NoIo
    /\ UNCHANGED <<invitees, message_history>>

WebhookPost ==
    /\ now < MaxClock
    /\ \E body \in WebhookBodies :
         LET n == HandlerNormalize(body) IN
         /\ req' = Some([route |-> WebhookRoute, body |-> body])
         /\ now' = now + 1
         /\ \/ n.kind = "empty" /\ WebhookNoDatastore(BadRequest400)
            \/ n.kind = "statuses" /\ WebhookNoDatastore(Ok200)
            \/ n.kind = "throw" /\ WebhookNoDatastore(Error500)
            \/ /\ n.kind = "message"
               /\ \E lo \in Outcomes, rows \in Lookup(n.from) :
                  \E uo \in UpdateAnswers(n, rows, lo) :
                  \E ino \in InsertAnswers(n, rows, lo, uo) :
                     LET r == PersistReply(n, rows, lo, uo, ino) IN
                     /\ res' = r.res
                     /\ invitees' = r.invitees
                     /\ message_history' = r.history
                     /\ dbCalls' = r.calls
                     /\ io' = r.io
    /\ UNCHANGED <<env, bulkVars, classVars, normVars>>

NextWebhook == WebhookPost

SpecWebhook == InitWebhook /\ [][NextWebhook]_vars

(***************************************************************************)
(* Vocabulary of the statements about webhook delivery                     *)
(***************************************************************************)
FirstMessage(body) == Get(Get(ValueOf(body)).messages)[1]
IsWebhook(r) == IsSome(r) /\ Get(r).route = WebhookRoute
KnownSender(from) == \E i \in DOMAIN invitees : invitees[i].phone_number = from

\* C1: a webhook request with a non-empty body that carries no inbound
\* message (no entry, no changes, no value, neither messages nor statuses,
\* empty statuses, empty messages, or statuses only) is answered 200; 400
\* is answered to the empty body and to nothing else.
C1_MalformedParseableIs200 ==
    IsWebhook(req) =>
        LET body == Get(req).body IN
        /\ (IsSome(body) /\ ~C6_HasMessages(body)) => res.status = 200
        /\ res.status = 400 <=> ~IsSome(body)

\* C2: a webhook request carrying an inbound message is answered 200
\* whatever the lookup, the update and the insert answered.
C2_MessageIs200DespitePersistence ==
    (IsWebhook(req) /\ C6_HasMessages(Get(req).body)) => res.status = 200

\* a non-pending reply of a known invitee
C9_Decisive(body) ==
    /\ C6_HasMessages(body)
    /\ KnownSender(FirstMessage(body).from)
    /\ Classify(TextOf(FirstMessage(body))) # "pending"

\* C9: a delivery of a non-pending reply of a known invitee, whose datastore
\* calls fail in nothing, appends its note after the notes already stored
\* and inserts its message-history row, also when the same whatsapp message
\* id has been delivered, noted and inserted before.
C9_RedeliveryNotDeduplicated ==
    [][ ( /\ IsWebhook(req')
          /\ C9_Decisive(Get(req').body)
          /\ io'.lookup = "ok"
          /\ io'.update \notin {"error", "throw"}
          /\ io'.insert \notin {"error", "throw"} )
        =>
        LET m == FirstMessage(Get(req').body) IN
        /\ \E i \in DOMAIN invitees :
              /\ invitees[i].phone_number = m.from
              /\ invitees'[i].additional_info =
                    invitees[i].additional_info \o <<[at |-> now, text |-> TextOf(m)]>>
              /\ invitees'[i].rsvp_status = Classify(TextOf(m))
        /\ Len(message_history') = Len(message_history) + 1
        /\ SubSeq(message_history', 1, Len(message_history)) = message_history
        /\ message_history'[Len(message_history')].whatsapp_message_id = m.id
      ]_vars

\* the same message has been delivered twice: two rows carry its id and the
\* sender's notes end with its text twice
C9_Witness ==
    /\ \E j, k \in DOMAIN message_history :
          /\ j < k
          /\ message_history[j].whatsapp_message_id = message_history[k].whatsapp_message_id
    /\ \E i \in DOMAIN invitees :
          LET a == invitees[i].additional_info IN
          /\ Len(a) >= 2
          /\ a[Len(a)].text = a[Len(a) - 1].text
          /\ a[Len(a)].at # a[Len(a) - 1].at

\* C10: a delivery whose lookup fails or finds nobody issues no update and
\* no insert and leaves both tables as they were; a pending reply of a known
\* invitee leaves every invitee row as it was and issues exactly one insert
\* (which, answered ok, adds exactly one row); a status-update delivery
\* issues no datastore call at all; and an invitee row changes only on a
\* non-pending reply of a known invitee.
C10_WritesOnlyForKnownAndDecisive ==
    [][ IsWebhook(req') =>
        LET body == Get(req').body
            kind == C6_Expected(body)
            known == kind = "message" /\ io'.lookup = "ok"
                     /\ KnownSender(FirstMessage(body).from)
            pending == kind = "message"
                       /\ Classify(TextOf(FirstMessage(body))) = "pending"
        IN
        /\ kind = "statuses" =>
              /\ dbCalls' = <<>>
              /\ UNCHANGED <<invitees, message_history>>
        /\ (kind = "message" /\ ~known) =>
              /\ dbCalls' = <<"select">>
              /\ UNCHANGED <<invitees, message_history>>
        /\ (known /\ pending) =>
              /\ UNCHANGED invitees
              /\ dbCalls' = <<"select", "insert">>
              /\ io'.insert = "ok" =>
                    /\ Len(message_history') = Len(message_history) + 1
                    /\ SubSeq(message_history', 1, Len(message_history)) = message_history
              /\ io'.insert # "ok" => UNCHANGED message_history
        /\ invitees' # invitees => (known /\ ~pending)
        /\ message_history' # message_history => known
      ]_vars

\* a pending reply of a known invitee has been recorded and no row updated
C10_Witness ==
    /\ IsWebhook(req)
    /\ C6_HasMessages(Get(req).body)
    /\ Classify(TextOf(FirstMessage(Get(req).body))) = "pending"
    /\ dbCalls = <<"select", "insert">>
    /\ io.insert = "ok"
    /\ Len(message_history) >= 1
    /\ invitees = InitInvitees

(***************************************************************************)
(* sendTextMessage: src/app.js lines 33-57.  A phone number is a sequence  *)
(* of tokens ("whatsapp:", "+", digits); a missing `to` is None.           *)
(***************************************************************************)
\* String.prototype.replace(token, ""): the first occurrence only
RemoveFirst(s, token) ==
    IF \E i \in DOMAIN s : s[i] = token
    THEN LET i == CHOOSE i \in DOMAIN s :
                     s[i] = token /\ \A j \in 1..(i - 1) : s[j] # token
         IN  SubSeq(s, 1, i - 1) \o SubSeq(s, i + 1, Len(s))
    ELSE s

cleanPhoneNumber(to) == RemoveFirst(RemoveFirst(to, "whatsapp:"), "+")

ConfigMissing ==
    \/ ~IsSome(getWhatsAppConfig.phoneNumberId)
    \/ ~IsSome(getWhatsAppConfig.accessToken)

ConfigError == "WhatsApp configuration missing: phoneNumberId or accessToken"
ToTypeError == "Cannot read properties of undefined (reading 'replace')"
ProviderError == "Request failed with status code 400"
DbReject == "fetch failed"

\* what sendTextMessage does before the provider is called: the message of
\* the error it throws, or None when it goes on to call axios.post
SendPrecheck(to) ==
    IF ConfigMissing THEN Some(ConfigError)
    ELSE IF ~IsSome(to) THEN Some(ToTypeError)
    ELSE None

\* the call the provider receives
ProviderCall(index, to, body) ==
    [index |-> index, to |-> cleanPhoneNumber(Get(to)), body |-> body, answer |-> "pending"]

\* the id the provider gives the message of its n-th call
ProviderId(n) == n

Recipients ==
    { None, Some(<<"whatsapp:", "+", "15550001">>), Some(<<"+", "15550002">>) }
SendEnvs ==
    [ WHATSAPP_PHONE_NUMBER_ID : {None, Some("1066")},
      WHATSAPP_ACCESS_TOKEN : {Some("EAAG")},
      WHATSAPP_WEBHOOK_VERIFY_TOKEN : {Some("s3cret")} ]

(***************************************************************************)
(* Single send: src/app.js lines 68-105                                    *)
(***************************************************************************)
SendRoute == "POST /api/send-message"

SendFailure(message, code) ==
    [ status |-> 500,
      body |-> [success |-> FALSE, error |-> message, errorCode |-> code] ]

\* the row of the history insert of the two send routes
SentRow(inviteeId, body, status, whatsappMessageId) ==
    [ id |-> Len(message_history) + 1,
      invitee_id |-> inviteeId,
      message_body |-> body,
      sent_at |-> now,
      status |-> status,
      whatsapp_message_id |-> whatsappMessageId ]

InitSend ==
    /\ env \in SendEnvs
    /\ req = None /\ res = None
    /\ now = 0
    /\ invitees = InitInvitees
    /\ message_history = <<>>
    /\ dbCalls = <<>>
    /\ io = NoIo
    /\ IdleBulk /\ IdleClass /\ IdleNorm

SendMessage ==
    /\ now < MaxClock
    /\ \E to \in Recipients, inviteeId \in {None, Some(1)}, po \in {"ok", "fail"} :
       \E dbo \in Outcomes :
         LET body == <<"h", "i">>
             pre == SendPrecheck(to)
             called == ~IsSome(pre)
             id == ProviderId(Len(sent) + 1)
         IN
         /\ req' = Some([route |-> SendRoute, to |-> to, inviteeId |-> inviteeId])
         /\ now' = now + 1
         /\ sent' = IF called
                    THEN Append(sent, [ProviderCall(Len(sent) + 1, to, body)
                                          EXCEPT !.answer = po])
                    ELSE sent
         /\ IF IsSome(pre)
            THEN /\ res' = SendFailure(Get(pre), "UNKNOWN_ERROR")
                 /\ io' = NoIo
                 /\ dbCalls' = <<>>
                 /\ UNCHANGED message_history
            ELSE IF po = "fail"
            THEN /\ res' = SendFailure(ProviderError, "131030")
                 /\ io' = [NoIo EXCEPT !.send = "fail"]
                 /\ dbCalls' = <<>>
                 /\ UNCHANGED message_history
            ELSE /\ io' = [NoIo EXCEPT !.send = "ok", !.insert = dbo]
                 /\ dbCalls' = <<"insert">>
                 /\ message_history' =
                       IF dbo = "ok"
                       THEN Append(message_history,
                                   SentRow(inviteeId, body, "delivered", Some(id)))
                       ELSE message_history
                 /\ res' = IF dbo = "throw"
                           THEN SendFailure(DbReject, "UNKNOWN_ERROR")
                           ELSE [ status |-> 200,
                                  body |-> [ success |-> TRUE,
                                             whatsappMessageId |-> Some(id),
                                             messageHistoryId |->
                                                 IF dbo = "ok"
                                                 THEN Some(Len(message_history) + 1)
                                                 ELSE None ] ]
    /\ UNCHANGED <<env, invitees, pc, idx, timers, results, errors, inflight,
                   classVars, normVars>>

NextSend == SendMessage

SpecSend == InitSend /\ [][NextSend]_vars

\* C7: whenever the provider accepted the message of a single-send request,
\* the response is 200 with success true and the provider's message id,
\* whatever the history insert answered.
C7_SendReportedDespitePersistence ==
    (IsSome(req) /\ Get(req).route = SendRoute /\ io.send = "ok") =>
        /\ res.status = 200
        /\ res.body.success
        /\ res.body.whatsappMessageId = Some(sent[Len(sent)].index)

(***************************************************************************)
(* Bulk send: src/app.js lines 108-147, one step per await.                *)
(* pc is "idle", "loop" (the head of the for loop), "awaitSend" (awaiting  *)
(* sendTextMessage), "insert" (awaiting the history insert), "delay"       *)
(* (awaiting the timer) or "done" (responded).                             *)
(***************************************************************************)
BulkRoute == "POST /api/send-bulk-messages"

\* an element of messages: null (None) or an object with to and body
BulkEntries ==
    { None,
      Some([to |-> None, body |-> <<"h", "i">>]),
      Some([to |-> Some(<<"whatsapp:", "+", "15550001">>), body |-> <<"h", "i">>]),
      Some([to |-> Some(<<"+", "15550002">>), body |-> <<"h", "i">>]) }

BulkRequests == {None} \cup {Some(m) : m \in SeqsUpTo(BulkEntries, MaxMsgs)}

Messages == Get(Get(req).messages)

InitBulk ==
    /\ env \in SendEnvs
    /\ req = None /\ res = None
    /\ now = 0
    /\ invitees = InitInvitees
    /\ message_history = <<>>
    /\ dbCalls = <<>>
    /\ io = NoIo
    /\ IdleBulk /\ IdleClass /\ IdleNorm

\* lines 108-112; a body without messages makes for..of throw: line 145
BulkReceive ==
    /\ pc = "idle"
    /\ \E messages \in BulkRequests :
         /\ req' = Some([route |-> BulkRoute, messages |-> messages])
         /\ IF IsSome(messages)
            THEN /\ pc' = "loop"
                 /\ idx' = 1
                 /\ res' = res
            ELSE /\ pc' = "done"
                 /\ idx' = idx
                 /\ res' = [ status |-> 500,
                             body |-> [success |-> FALSE,
                                       error |-> "messages is not iterable"] ]
    /\ UNCHANGED <<env, dbVars, timers, results, errors, inflight, sent,
                   classVars, normVars>>

\* where the handler stands once sendTextMessage has called the provider
DispatchedNotAwaited(i) == [pc |-> "loop", idx |-> i + 1]
Dispatched(i) == [pc |-> "awaitSend", idx |-> i]

\* lines 113-118 and 138-140: the loop takes its next message and calls
\* sendTextMessage, which throws or calls the provider
BulkDispatch ==
    /\ pc = "loop"
    /\ idx <= Len(Messages)
    /\ LET msgData == Messages[idx] IN
       IF ~IsSome(msgData)
       THEN \* msgData.to throws in the try and again in the catch: line 145
            /\ res' = [ status |-> 500,
                        body |-> [success |-> FALSE,
                                  error |-> "Cannot read properties of null (reading 'to')"] ]
            /\ pc' = "done"
            /\ UNCHANGED <<idx, errors, inflight, sent>>
       ELSE LET pre == SendPrecheck(Get(msgData).to) IN
            IF IsSome(pre)
            THEN /\ errors' = Append(errors, [to |-> Get(msgData).to, error |-> Get(pre)])
                 /\ pc' = "delay"
                 /\ UNCHANGED <<idx, res, inflight, sent>>
            ELSE /\ sent' = Append(sent, ProviderCall(idx, Get(msgData).to,
                                                      Get(msgData).body))
                 /\ inflight' = inflight \cup {idx}
                 /\ pc' = Dispatched(idx).pc
                 /\ idx' = Dispatched(idx).idx
                 /\ UNCHANGED <<res, errors>>
    /\ UNCHANGED <<env, req, dbVars, timers, results, classVars, normVars>>

\* the position in sent of the call made for message i
CallOf(i) == CHOOSE n \in DOMAIN sent : sent[n].index = i

\* lines 46-56: the provider answers an outstanding call; the handler goes
\* on when it is awaiting that call
ProviderAnswer ==
    \E i \in inflight, po \in {"ok", "fail"} :
        /\ inflight' = inflight \ {i}
        /\ sent' = [sent EXCEPT ![CallOf(i)].answer = po]
        /\ IF pc = "awaitSend" /\ idx = i
           THEN IF po = "ok"
                THEN pc' = "insert" /\ UNCHANGED errors
                ELSE /\ errors' = Append(errors, [to |-> Get(Messages[i]).to,
                                                  error |-> ProviderError])
                     /\ pc' = "delay"
           ELSE UNCHANGED <<pc, errors>>
        /\ UNCHANGED <<env, httpVars, dbVars, idx, timers, results, classVars, normVars>>

\* lines 119-137: the history insert and the push to results
BulkInsert ==
    /\ pc = "insert"
    /\ \E dbo \in Outcomes :
         LET msgData == Get(Messages[idx])
             id == ProviderId(CallOf(idx))
         IN
         /\ message_history' =
               IF dbo = "ok"
               THEN Append(message_history, SentRow(None, msgData.body, "sent", Some(id)))
               ELSE message_history
         /\ IF dbo = "throw"
            THEN /\ errors' = Append(errors, [to |-> msgData.to, error |-> DbReject])
                 /\ UNCHANGED results
            ELSE /\ results' = Append(results,
                                      [ to |-> msgData.to,
                                        whatsappMessageId |-> Some(id),
                                        messageHistoryId |->
                                            IF dbo = "ok"
                                            THEN Some(Len(message_history) + 1)
                                            ELSE None ])
                 /\ UNCHANGED errors
         /\ pc' = "delay"
    /\ UNCHANGED <<env, httpVars, now, invitees, dbCalls, io, idx, timers,
                   inflight, sent, classVars, normVars>>

\* line 141: the timer fires and the loop goes to its next message
BulkDelay ==
    /\ pc = "delay"
    /\ timers' = timers + 1
    /\ idx' = idx + 1
    /\ pc' = "loop"
    /\ UNCHANGED <<env, httpVars, dbVars, results, errors, inflight, sent,
                   classVars, normVars>>

\* line 143: the loop is over
BulkRespond ==
    /\ pc = "loop"
    /\ idx > Len(Messages)
    /\ res' = [ status |-> 200,
                body |-> [success |-> TRUE, results |-> results, errors |-> errors] ]
    /\ pc' = "done"
    /\ UNCHANGED <<env, req, dbVars, idx, timers, results, errors, inflight, sent,
                   classVars, normVars>>

BulkStep == BulkDispatch \/ ProviderAnswer \/ BulkInsert \/ BulkDelay \/ BulkRespond

NextBulk == BulkReceive \/ BulkStep

\* the event loop runs every continuation that is ready, timers fire, and
\* the provider and the datastore answer every call
SpecBulk == InitBulk /\ [][NextBulk]_vars /\ WF_vars(BulkStep)

IsBulkList(r) == IsSome(r) /\ Get(r).route = BulkRoute /\ IsSome(Get(r).messages)

\* whether the send of message i of the request failed
C4_SendFailed(i) ==
    \/ ~IsSome(Messages[i])
    \/ IsSome(SendPrecheck(Get(Messages[i]).to))
    \/ \E n \in DOMAIN sent : sent[n].index = i /\ sent[n].answer = "fail"

\* C4: a bulk request with a messages list is answered 200 with one errors
\* entry for each message whose send failed and one results entry for each
\* other message, so that results and errors together count the messages.
C4_BulkAlways200 ==
    (IsBulkList(req) /\ pc = "done") =>
        LET failed == {i \in DOMAIN Messages : C4_SendFailed(i)} IN
        /\ res.status = 200
        /\ Len(res.body.results) + Len(res.body.errors) = Len(Messages)
        /\ Len(res.body.errors) = Cardinality(failed)
        /\ Len(res.body.results) = Len(Messages) - Cardinality(failed)

====
